---- MODULE Spec2Model ----
(***************************************************************************)
(* Model of app.py, the HR ID card generator: one script run (inputs,      *)
(* photo source preparation, the record loop, export, cleanup), the photo  *)
(* resolver find_photo_path and the photo fitter resize_and_center_crop.   *)
(* Text is a sequence of one-character strings, so that str(), strip(),   *)
(* lower(), Path.stem and Path.suffix are computed, not assumed.           *)
(***************************************************************************)
EXTENDS Integers, Sequences, FiniteSets, TLC

VARIABLES
    pc,              \* position of the script run
    df,              \* rows read from the Excel file, in order
    idx,             \* number of rows whose iteration has completed
    template,        \* object id of the template image
    heap,            \* image objects: id -> what has been drawn/pasted on it
    card,            \* object id bound to the loop variable card
    national_id,     \* loop local
    photo_filename,  \* loop local
    photos_root,     \* None or the root directory
    created_tmpdir,  \* a temp dir was created by this run
    tmpdir_exists,   \* the temp dir is still on disk
    output_cards,    \* list of card object ids
    warnings,        \* st.warning calls, in order: <<row, kind>>
    errors,          \* st.error calls, in order
    pdf,             \* None or the page list handed to the download button
    export_tried,    \* output_cards[0].save(...) was called
    files,           \* resolver: the set of files under the root
    requested,       \* resolver: the requested name
    walk,            \* the enumeration os.walk produces: <<[dirpath, filenames]>>
    found,           \* resolver: the set of results returned so far
    calls,           \* resolver: number of find_photo_path calls made
    src_size,        \* fitter: (iw, ih)
    target_size,     \* fitter: (tw, th)
    fitted           \* fitter: None or <<the result of resize_and_center_crop>>

mainVars == <<pc, df, idx, template, heap, card, national_id, photo_filename,
              photos_root, created_tmpdir, tmpdir_exists, output_cards,
              warnings, errors, pdf, export_tried>>
resolveVars == <<files, requested, found, calls>>
fitVars == <<src_size, target_size, fitted>>
vars == <<mainVars, resolveVars, walk, fitVars>>

\* Python's None, where every other value is a non-empty sequence
None == <<>>

(***************************************************************************)
(* Bounds                                                                  *)
(***************************************************************************)
MaxRecords == 3
MaxFiles == 3
MaxCalls == 2
MaxDim == 4

(***************************************************************************)
(* Python text                                                             *)
(***************************************************************************)
Upper == <<"A","B","C","D","E","F","G","H","I","J","K","L","M",
           "N","O","P","Q","R","S","T","U","V","W","X","Y","Z">>
LowerOf == <<"a","b","c","d","e","f","g","h","i","j","k","l","m",
             "n","o","p","q","r","s","t","u","v","w","x","y","z">>

LowerChar(c) ==
    IF \E i \in 1..26 : Upper[i] = c
    THEN LowerOf[CHOOSE i \in 1..26 : Upper[i] = c]
    ELSE c

Lower(s) == [i \in 1..Len(s) |-> LowerChar(s[i])]

\* position of the last occurrence of c in s, 0 if there is none (rfind + 1)
RFind(s, c) ==
    IF \E i \in 1..Len(s) : s[i] = c
    THEN CHOOSE i \in 1..Len(s) : s[i] = c /\ \A j \in (i+1)..Len(s) : s[j] # c
    ELSE 0

\* Path(p).name: the last path component
PathName(p) == SubSeq(p, RFind(p, "/") + 1, Len(p))

\* Path(p).suffix: from the last dot of the name, unless that dot leads or ends it
PathSuffix(p) ==
    LET name == PathName(p)
        i == RFind(name, ".")
    IN  IF 1 < i /\ i < Len(name) THEN SubSeq(name, i, Len(name)) ELSE <<>>

\* Path(p).stem: the name without its suffix
PathStem(p) ==
    LET name == PathName(p)
        i == RFind(name, ".")
    IN  IF 1 < i /\ i < Len(name) THEN SubSeq(name, 1, i - 1) ELSE name

\* os.path.join(dirpath, fn)
PathJoin(d, fn) == d \o <<"/">> \o fn

(***************************************************************************)
(* find_photo_path                                                         *)
(***************************************************************************)
PNG == <<".","p","n","g">>
JPG == <<".","j","p","g">>
JPEG == <<".","j","p","e","g">>
BMP == <<".","b","m","p">>

\* order.get(Path(p).suffix.lower(), 9)
OrderKeyJpgFirst(p) ==
    LET sfx == Lower(PathSuffix(p))
    IN  IF sfx = JPG THEN 0
        ELSE IF sfx = PNG THEN 1
        ELSE IF sfx = JPEG THEN 2
        ELSE IF sfx = BMP THEN 3
        ELSE 9

OrderKey(p) ==
    LET sfx == Lower(PathSuffix(p))
    IN  IF sfx = PNG THEN 0
        ELSE IF sfx = JPG THEN 1
        ELSE IF sfx = JPEG THEN 2
        ELSE IF sfx = BMP THEN 3
        ELSE 9

\* the paths os.walk yields whose stem matches, in enumeration order
RECURSIVE MatchesIn(_, _, _)
MatchesIn(d, fns, req_stem) ==
    IF fns = <<>> THEN <<>>
    ELSE (IF Lower(PathStem(Head(fns))) = req_stem
          THEN <<PathJoin(d, Head(fns))>> ELSE <<>>)
         \o MatchesIn(d, Tail(fns), req_stem)

RECURSIVE Candidates(_, _)
Candidates(w, req_stem) ==
    IF w = <<>> THEN <<>>
    ELSE MatchesIn(Head(w).dirpath, Head(w).filenames, req_stem)
         \o Candidates(Tail(w), req_stem)

\* list.sort(key=...): stable, ascending
RECURSIVE InsertByKey(_, _)
InsertByKey(sorted, p) ==
    IF sorted = <<>> THEN <<p>>
    ELSE IF OrderKey(Head(sorted)) <= OrderKey(p)
         THEN <<Head(sorted)>> \o InsertByKey(Tail(sorted), p)
         ELSE <<p>> \o sorted

RECURSIVE SortCandidates(_)
SortCandidates(c) ==
    IF c = <<>> THEN <<>>
    ELSE InsertByKey(SortCandidates(SubSeq(c, 1, Len(c) - 1)), c[Len(c)])

find_photo_path(w, req) ==
    IF req = <<>> THEN None
    ELSE LET candidates == Candidates(w, Lower(PathStem(req)))
         IN  IF candidates # <<>> THEN Head(SortCandidates(candidates)) ELSE None

(***************************************************************************)
(* The photo tree and the enumerations os.walk can produce for it          *)
(***************************************************************************)
ROOT == <<"r">>
DIR_A == <<"r","/","a">>
DIR_B == <<"r","/","b">>
SubDirs == {DIR_A, DIR_B}

P_PNG == <<"p",".","p","n","g">>
P_JPG == <<"p",".","j","p","g">>
UP_JPEG == <<"P",".","J","P","E","G">>
P_BMP == <<"p",".","b","m","p">>
P_GIF == <<"p",".","g","i","f">>
P_TIF == <<"p",".","t","i","f">>
Q_PNG == <<"q",".","p","n","g">>

FilePool ==
    {[dir |-> ROOT, fn |-> n] : n \in {P_PNG, P_JPG, UP_JPEG, P_BMP, P_GIF, P_TIF, Q_PNG}}
    \cup {[dir |-> DIR_A, fn |-> n] : n \in {P_PNG, P_GIF}}
    \cup {[dir |-> DIR_B, fn |-> n] : n \in {P_PNG}}

RequestPool == {<<>>, <<"p">>, <<"P",".","j","p","g">>, <<"x","/","p",".","b","m","p">>, <<"z">>}

\* all sequences that enumerate the set S once each
Perms(S) ==
    {s \in [1..Cardinality(S) -> S] : \A i, j \in 1..Cardinality(S) : s[i] = s[j] => i = j}

NamesIn(fs, d) == {f.fn : f \in {g \in fs : g.dir = d}}
DirsOf(fs) == {f.dir : f \in fs} \ {ROOT}

\* top-down os.walk: the root first, then each sub-directory, the names of a
\* directory and the sub-directories in the order the file system lists them
Walks(fs) ==
    {[i \in 1..(1 + Len(dorder)) |->
        IF i = 1 THEN [dirpath |-> ROOT, filenames |-> rootNames]
        ELSE [dirpath |-> dorder[i-1], filenames |-> subNames[dorder[i-1]]]] :
        rootNames \in Perms(NamesIn(fs, ROOT)),
        dorder \in Perms(DirsOf(fs)),
        subNames \in {f \in [SubDirs -> UNION {Perms(NamesIn(fs, d)) : d \in SubDirs}] :
                        \A d \in SubDirs : f[d] \in Perms(NamesIn(fs, d))}}

(***************************************************************************)
(* Python values of the row cells, and the field extraction of the loop    *)
(***************************************************************************)
PyString(s) == [k |-> "str", s |-> s]
PyInt(n) == [k |-> "int", n |-> n]
NaN == [k |-> "nan"]
PyNone == [k |-> "none"]
Absent == [k |-> "absent"]     \* the sheet has no such column

DigitChars == <<"0","1","2","3","4","5","6","7","8","9">>

RECURSIVE IntToStr(_)
IntToStr(n) ==
    IF n < 10 THEN <<DigitChars[n + 1]>>
    ELSE IntToStr(n \div 10) \o <<DigitChars[(n % 10) + 1]>>

\* bool(v)
Truthy(v) ==
    CASE v.k = "str" -> v.s # <<>>
      [] v.k = "int" -> v.n # 0
      [] v.k = "nan" -> TRUE
      [] v.k = "none" -> FALSE

\* a or b
PyOr(a, b) == IF Truthy(a) THEN a ELSE b

\* str(v)
PyStr(v) ==
    CASE v.k = "str" -> v.s
      [] v.k = "int" -> IntToStr(v.n)
      [] v.k = "nan" -> <<"n","a","n">>
      [] v.k = "none" -> <<"N","o","n","e">>

RECURSIVE LStrip(_)
LStrip(s) == IF s # <<>> /\ Head(s) = " " THEN LStrip(Tail(s)) ELSE s

RECURSIVE RStrip(_)
RStrip(s) ==
    IF s # <<>> /\ s[Len(s)] = " " THEN RStrip(SubSeq(s, 1, Len(s) - 1)) ELSE s

\* s.strip()
Strip(s) == RStrip(LStrip(s))

\* row.get(col, default)
RowGet(row, col, default) == IF row[col].k = "absent" THEN default ELSE row[col]

\* str(row.get(col, "") or "").strip()
Field(row, col) == Strip(PyStr(PyOr(RowGet(row, col, PyString(<<>>)), PyString(<<>>))))

\* prepare_text: "" for empty text, else the reshaped, reordered text
prepare_text(text) == IF text = <<>> THEN <<>> ELSE <<"shaped", text>>

Cols == {"name", "job", "num", "national_id", "photo"}

RowPool ==
    { [name |-> PyString(<<"A">>), job |-> PyString(<<"J">>), num |-> PyInt(7),
       national_id |-> PyString(<<"1">>), photo |-> PyString(<<"p",".","j","p","g">>)],
      [name |-> PyString(<<"B">>), job |-> NaN, num |-> NaN,
       national_id |-> NaN, photo |-> NaN],
      [name |-> PyString(<<" ","C">>), job |-> PyString(<<"J">>), num |-> PyInt(0),
       national_id |-> PyNone, photo |-> PyString(<<"z">>)],
      [name |-> PyString(<<"D">>), job |-> PyString(<<"J">>), num |-> PyInt(12),
       national_id |-> PyString(<<" ">>), photo |-> PyString(<<"P">>)],
      [name |-> PyString(<<"E">>), job |-> Absent, num |-> PyInt(3),
       national_id |-> Absent, photo |-> Absent] }

\* a column is in the sheet for every row or for none
Sheets ==
    {d \in UNION {[1..n -> RowPool] : n \in 0..MaxRecords} :
        \A c \in Cols : \A i, j \in 1..Len(d) :
            (d[i][c].k = "absent") <=> (d[j][c].k = "absent")}

\* the two photo trees of the run: no photo at all, or p.jpg and p.png in the root
RunWalks ==
    { <<[dirpath |-> ROOT, filenames |-> <<>>]>>,
      <<[dirpath |-> ROOT, filenames |-> <<P_JPG, P_PNG>>]>> }

(***************************************************************************)
(* Images: an image object is what has been drawn and pasted on it         *)
(***************************************************************************)
BlankImage == [text |-> <<>>, photo |-> None, barcode |-> None]

\* template.copy(): a new object with the template's content
TemplateCopyAliased(h, t) == [heap |-> h, card |-> t]
TemplateCopy(h, t) == [heap |-> Append(h, h[t]), card |-> Len(h) + 1]

\* draw_aligned_text: nothing for empty text, else the text at the anchor
draw_aligned_text(img, block, off, text) ==
    IF text = <<>> THEN img
    ELSE [img EXCEPT !.text = Append(@, [block |-> block, off |-> off, text |-> text])]

\* draw_bold_text: the same text at four offsets
draw_bold_text(img, block, text) ==
    draw_aligned_text(
      draw_aligned_text(
        draw_aligned_text(
          draw_aligned_text(img, block, <<0, 0>>, text),
          block, <<1, 0>>, text),
        block, <<0, 1>>, text),
      block, <<1, 1>>, text)

LabelPrefix == <<"N","o",":"," ">>

\* the three text blocks of a card: name (bold), job, employee number label
DrawTexts(img, row) ==
    LET name == prepare_text(Field(row, "name"))
        job == prepare_text(Field(row, "job"))
        job_id_label == prepare_text(LabelPrefix \o Field(row, "num"))
    IN  draw_aligned_text(
          draw_aligned_text(draw_bold_text(img, "name", name), "job", <<0, 0>>, job),
          "id", <<0, 0>>, job_id_label)

\* output_cards.append(card)
AppendCardReplaces(cards, c) == <<c>>
AppendCardInFront(cards, c) == <<c>> \o cards
AppendCard(cards, c) == Append(cards, c)

Warn(w, i, kind) == Append(w, [row |-> i, kind |-> kind])

\* the st.warning calls of the PHOTO and BARCODE steps
WarnNothing(w, i) == w
WarnPhotoNotFound(w, i) == Warn(w, i, "photo_not_found")
WarnPhotoFailed(w, i) == Warn(w, i, "photo_failed")
WarnNoPhotosRoot(w, i) == Warn(w, i, "no_photos_root")
WarnNationalIdMissing(w, i) == Warn(w, i, "national_id_missing")
WarnBarcodeFailed(w, i) == Warn(w, i, "barcode_failed")

\* if output_cards:
ExportGuardAlways(cards) == TRUE
ExportGuard(cards) == cards # <<>>

\* the pages of output_cards[0].save(..., append_images=output_cards[1:])
Pages(cards, h) ==
    LET order == <<cards[1]>> \o SubSeq(cards, 2, Len(cards))
    IN  [i \in 1..Len(order) |-> h[order[i]]]

(***************************************************************************)
(* The script run                                                          *)
(***************************************************************************)
IdleResolve == files = {} /\ requested = <<>> /\ found = {} /\ calls = 0
IdleFit == src_size = <<1, 1>> /\ target_size = <<1, 1>> /\ fitted = None

Init ==
    /\ pc = "inputs"
    /\ df = <<>>
    /\ idx = 0
    /\ template = 0
    /\ heap = <<>>
    /\ card = 0
    /\ national_id = <<>>
    /\ photo_filename = <<>>
    /\ photos_root = None
    /\ created_tmpdir = FALSE
    /\ tmpdir_exists = FALSE
    /\ output_cards = <<>>
    /\ warnings = <<>>
    /\ errors = <<>>
    /\ pdf = None
    /\ export_tried = FALSE
    /\ walk = <<>>
    /\ IdleResolve
    /\ IdleFit

\* st.stop(), after the st.error calls msgs
Stop(msgs) ==
    /\ pc' = "stopped"
    /\ errors' = errors \o msgs

\* lines 149-151: both uploads are needed; lines 154-155 load the fonts
CheckInputs ==
    /\ pc = "inputs"
    /\ \E excel_file, template_file \in BOOLEAN :
        IF ~excel_file \/ ~template_file
        THEN Stop(<<>>)
        ELSE pc' = "read_excel" /\ UNCHANGED errors
    /\ UNCHANGED <<df, idx, template, heap, card, national_id, photo_filename,
                   photos_root, created_tmpdir, tmpdir_exists, output_cards,
                   warnings, pdf, export_tried, walk, resolveVars, fitVars>>

\* lines 158-162
ReadExcel ==
    /\ pc = "read_excel"
    /\ \/ \E d \in Sheets : df' = d /\ pc' = "read_template" /\ UNCHANGED errors
       \/ Stop(<<"read_excel_failed">>) /\ UNCHANGED df
    /\ UNCHANGED <<idx, template, heap, card, national_id, photo_filename,
                   photos_root, created_tmpdir, tmpdir_exists, output_cards,
                   warnings, pdf, export_tried, walk, resolveVars, fitVars>>

\* lines 164-168
ReadTemplate ==
    /\ pc = "read_template"
    /\ \/ /\ heap' = Append(heap, BlankImage)
          /\ template' = Len(heap) + 1
          /\ pc' = "photos"
          /\ UNCHANGED errors
       \/ Stop(<<"read_template_failed">>) /\ UNCHANGED <<heap, template>>
    /\ UNCHANGED <<df, idx, card, national_id, photo_filename,
                   photos_root, created_tmpdir, tmpdir_exists, output_cards,
                   warnings, pdf, export_tried, walk, resolveVars, fitVars>>

LoopEntry == IF idx < Len(df) THEN "row_text" ELSE "export"

\* lines 171-214: the three photo sources
PreparePhotos ==
    /\ pc = "photos"
    /\ \E photos_source \in {"Upload ZIP", "ZIP URL", "Use repo folder"},
          given, ok \in BOOLEAN, w \in RunWalks :
        IF photos_source = "Use repo folder"
        THEN /\ UNCHANGED <<created_tmpdir, tmpdir_exists>>
             /\ IF given
                THEN /\ photos_root' = ROOT /\ walk' = w /\ pc' = LoopEntry
                     /\ UNCHANGED errors
                ELSE Stop(<<"repo_folder_not_found">>) /\ UNCHANGED <<photos_root, walk>>
        ELSE IF ~given
        THEN /\ Stop(<<IF photos_source = "Upload ZIP" THEN "no_zip" ELSE "no_url">>)
             /\ UNCHANGED <<photos_root, walk, created_tmpdir, tmpdir_exists>>
        ELSE /\ created_tmpdir' = TRUE
             \* on failure the temp dir stays: line 197 names shutil before
             \* its import at line 307, and the handler swallows the NameError
             /\ tmpdir_exists' = TRUE
             /\ IF ok
                THEN /\ photos_root' = ROOT /\ walk' = w /\ pc' = LoopEntry
                     /\ UNCHANGED errors
                ELSE /\ Stop(<<IF photos_source = "Upload ZIP"
                               THEN "prepare_failed" ELSE "download_failed">>)
                     /\ UNCHANGED <<photos_root, walk>>
    /\ UNCHANGED <<df, idx, template, heap, card, national_id, photo_filename,
                   output_cards, warnings, pdf, export_tried, resolveVars, fitVars>>

\* lines 223-249: copy the template, extract the fields, draw the three texts.
\* None of it is inside a try: a failure of the text drawing ends the run.
RowText ==
    /\ pc = "row_text"
    /\ LET row == df[idx + 1]
           cp == TemplateCopy(heap, template)
       IN  /\ card' = cp.card
           /\ \E text_ok \in BOOLEAN :
                IF text_ok
                THEN /\ heap' = [cp.heap EXCEPT ![cp.card] = DrawTexts(@, row)]
                     /\ national_id' = Field(row, "national_id")
                     /\ photo_filename' = Field(row, "photo")
                     /\ pc' = "row_photo"
                ELSE /\ heap' = cp.heap
                     /\ pc' = "aborted"
                     /\ UNCHANGED <<national_id, photo_filename>>
    /\ UNCHANGED <<df, idx, template, photos_root, created_tmpdir, tmpdir_exists,
                   output_cards, warnings, errors, pdf, export_tried, walk,
                   resolveVars, fitVars>>

\* lines 251-266. A path find_photo_path returned exists (line 255); opening,
\* fitting (resize_and_center_crop, modelled on its own below) and pasting
\* either succeed or raise inside the try.
RowPhoto ==
    /\ pc = "row_photo"
    /\ IF photos_root # None
       THEN LET photo_path == find_photo_path(walk, photo_filename)
            IN  IF photo_path # None
                THEN \/ /\ heap' = [heap EXCEPT ![card].photo = photo_path]
                        /\ UNCHANGED warnings
                     \/ /\ warnings' = WarnPhotoFailed(warnings, idx)
                        /\ UNCHANGED heap
                ELSE /\ warnings' = WarnPhotoNotFound(warnings, idx)
                     /\ UNCHANGED heap
       ELSE /\ warnings' = WarnNoPhotosRoot(warnings, idx)
            /\ UNCHANGED heap
    /\ pc' = "row_barcode"
    /\ UNCHANGED <<df, idx, template, card, national_id, photo_filename,
                   photos_root, created_tmpdir, tmpdir_exists, output_cards,
                   errors, pdf, export_tried, walk, resolveVars, fitVars>>

\* lines 268-285: the barcode, then the append and the next iteration
RowBarcode ==
    /\ pc = "row_barcode"
    /\ IF national_id # <<>>
       THEN \/ /\ heap' = [heap EXCEPT ![card].barcode = national_id]
               /\ UNCHANGED warnings
            \/ /\ warnings' = WarnBarcodeFailed(warnings, idx)
               /\ UNCHANGED heap
       ELSE /\ warnings' = WarnNationalIdMissing(warnings, idx)
            /\ UNCHANGED heap
    /\ output_cards' = AppendCard(output_cards, card)
    /\ idx' = idx + 1
    /\ pc' = IF idx + 1 < Len(df) THEN "row_text" ELSE "export"
    /\ UNCHANGED <<df, template, card, national_id, photo_filename,
                   photos_root, created_tmpdir, tmpdir_exists,
                   errors, pdf, export_tried, walk, resolveVars, fitVars>>

\* lines 290-302
Export ==
    /\ pc = "export"
    /\ IF ExportGuard(output_cards)
       THEN /\ export_tried' = TRUE
            /\ \/ /\ output_cards # <<>>
                  /\ pdf' = Pages(output_cards, heap)
                  /\ UNCHANGED errors
               \/ /\ errors' = Append(errors, "export_failed")
                  /\ UNCHANGED pdf
            /\ UNCHANGED warnings
       ELSE /\ warnings' = Warn(warnings, -1, "no_cards")
            /\ UNCHANGED <<errors, pdf, export_tried>>
    /\ pc' = "cleanup"
    /\ UNCHANGED <<df, idx, template, heap, card, national_id, photo_filename,
                   photos_root, created_tmpdir, tmpdir_exists, output_cards,
                   walk, resolveVars, fitVars>>

\* lines 305-310
Cleanup ==
    /\ pc = "cleanup"
    /\ tmpdir_exists' = IF created_tmpdir THEN FALSE ELSE tmpdir_exists
    /\ pc' = "done"
    /\ UNCHANGED <<df, idx, template, heap, card, national_id, photo_filename,
                   photos_root, created_tmpdir, output_cards, warnings, errors,
                   pdf, export_tried, walk, resolveVars, fitVars>>

Next ==
    \/ CheckInputs
    \/ ReadExcel
    \/ ReadTemplate
    \/ PreparePhotos
    \/ RowText
    \/ RowPhoto
    \/ RowBarcode
    \/ Export
    \/ Cleanup

Spec == Init /\ [][Next]_vars

(***************************************************************************)
(* IEEE 754 binary64 arithmetic, as far as resize_and_center_crop uses it. *)
(* A positive float is [m, e]: m the 53 significand bits, most significant *)
(* first, e the exponent of the last bit; its value is m * 2^e.            *)
(***************************************************************************)
Precision == 53

RECURSIVE Pow2(_)
Pow2(n) == IF n = 0 THEN 1 ELSE 2 * Pow2(n - 1)

\* the bits of a positive integer, most significant first
RECURSIVE IntBits(_)
IntBits(n) == IF n = 0 THEN <<>> ELSE IntBits(n \div 2) \o <<n % 2>>

RECURSIVE BitsInt(_)
BitsInt(b) == IF b = <<>> THEN 0 ELSE 2 * BitsInt(SubSeq(b, 1, Len(b) - 1)) + b[Len(b)]

\* b + 1 on bit sequences; a sequence of ones grows by one bit
BitsInc(b) ==
    IF \E i \in 1..Len(b) : b[i] = 0
    THEN LET z == CHOOSE i \in 1..Len(b) : b[i] = 0 /\ \A j \in (i+1)..Len(b) : b[j] = 1
         IN  [i \in 1..Len(b) |-> IF i < z THEN b[i] ELSE IF i = z THEN 1 ELSE 0]
    ELSE [i \in 1..(Len(b) + 1) |-> IF i = 1 THEN 1 ELSE 0]

\* round to nearest, ties to even: bits holds the exact significand (at least
\* Precision bits), e the exponent of its last bit, sticky says that non-zero
\* bits follow beyond it
RoundNearestEven(bits, e, sticky) ==
    LET extra == Len(bits) - Precision
        kept == SubSeq(bits, 1, Precision)
        rest == SubSeq(bits, Precision + 1, Len(bits))
        half == extra > 0 /\ rest[1] = 1
        below == sticky \/ \E i \in 2..Len(rest) : rest[i] = 1
        up == half /\ (below \/ kept[Precision] = 1)
        inc == IF up THEN BitsInc(kept) ELSE kept
    IN  IF Len(inc) > Precision
        THEN [m |-> SubSeq(inc, 1, Precision), e |-> e + extra + 1]
        ELSE [m |-> inc, e |-> e + extra]

\* 2^i mod den, by repeated squaring
RECURSIVE PowMod2(_, _)
PowMod2(i, den) ==
    IF i = 0 THEN 1 % den
    ELSE IF i % 2 = 0 THEN (PowMod2(i \div 2, den) * PowMod2(i \div 2, den)) % den
    ELSE (2 * PowMod2(i - 1, den)) % den

\* long division of r / den (r < den): the remainder after i quotient bits
\* and the first n quotient bits
RemainderAfter(r, den, i) == (r * PowMod2(i, den)) % den
QuotientBits(r, den, n) ==
    [bits |-> [i \in 1..n |-> IF 2 * RemainderAfter(r, den, i - 1) >= den THEN 1 ELSE 0],
     r |-> RemainderAfter(r, den, n)]

\* the k with 2^k * b <= a < 2^(k+1) * b
RECURSIVE QuotientExp(_, _, _)
QuotientExp(a, b, k) ==
    IF a < b THEN QuotientExp(2 * a, b, k - 1)
    ELSE IF a >= 2 * b THEN QuotientExp(a, 2 * b, k + 1)
    ELSE k

\* a / b for positive integers a, b (Python true division)
TrueDiv(a, b) ==
    LET k == QuotientExp(a, b, 0)
        num == IF k < 0 THEN a * Pow2(0 - k) ELSE a
        den == IF k > 0 THEN b * Pow2(k) ELSE b
        q == QuotientBits(num - den, den, Precision)
    IN  RoundNearestEven(<<1>> \o q.bits, k - Precision, q.r # 0)

\* the n-bit pattern of x
FixedBits(x, n) == [i \in 1..n |-> (x \div Pow2(n - i)) % 2]

\* bits * n for a 53-bit pattern, in limbs of LimbBits bits with a carry
TimesInt(bits, n) ==
    LET LimbBits == 18
        base == Pow2(LimbBits)
        hi == BitsInt(SubSeq(bits, 1, Len(bits) - 2 * LimbBits))
        mid == BitsInt(SubSeq(bits, Len(bits) - 2 * LimbBits + 1, Len(bits) - LimbBits))
        lo == BitsInt(SubSeq(bits, Len(bits) - LimbBits + 1, Len(bits)))
        p3 == n * lo
        p2 == n * mid + p3 \div base
        p1 == n * hi + p2 \div base
    IN  IntBits(p1) \o FixedBits(p2 % base, LimbBits) \o FixedBits(p3 % base, LimbBits)

\* n * x for a positive integer n and a float x
IntTimesFloat(n, x) == RoundNearestEven(TimesInt(x.m, n), x.e, FALSE)

\* x < y
BitsLess(a, b) ==
    \E i \in 1..Len(a) : a[i] < b[i] /\ \A j \in 1..(i - 1) : a[j] = b[j]

FloatLess(x, y) == x.e < y.e \/ (x.e = y.e /\ BitsLess(x.m, y.m))

\* max(x, y)
FloatMax(x, y) == IF FloatLess(x, y) THEN y ELSE x

\* int(x) for a positive float x below 2^53
FloatToInt(x) ==
    IF x.e >= 0 THEN BitsInt(x.m) * Pow2(x.e)
    ELSE IF Precision + x.e <= 0 THEN 0
    ELSE BitsInt(SubSeq(x.m, 1, Precision + x.e))

(***************************************************************************)
(* resize_and_center_crop                                                  *)
(***************************************************************************)
PHOTO_SIZE == <<300, 300>>

resize_and_center_crop(size, target) ==
    LET tw == target[1]
        th == target[2]
        iw == size[1]
        ih == size[2]
        scale == FloatMax(TrueDiv(tw, iw), TrueDiv(th, ih))
        new_w == FloatToInt(IntTimesFloat(iw, scale))
        new_h == FloatToInt(IntTimesFloat(ih, scale))
        left == (new_w - tw) \div 2
        top == (new_h - th) \div 2
    IN  [new_w |-> new_w, new_h |-> new_h,
         \* Image.resize raises ValueError for an empty size
         raised |-> new_w < 1 \/ new_h < 1,
         box |-> <<left, top, left + tw, top + th>>,
         \* Image.crop returns the size of the box, padding what lies outside
         size |-> <<(left + tw) - left, (top + th) - top>>]

(***************************************************************************)
(* The resolver on its own: one photo tree, one requested name, repeated   *)
(* calls between which the file system may list the tree in another order  *)
(***************************************************************************)
IdleRun(at) ==
    /\ pc = at
    /\ df = <<>> /\ idx = 0 /\ template = 0 /\ heap = <<>> /\ card = 0
    /\ national_id = <<>> /\ photo_filename = <<>> /\ photos_root = None
    /\ created_tmpdir = FALSE /\ tmpdir_exists = FALSE
    /\ output_cards = <<>> /\ warnings = <<>> /\ errors = <<>>
    /\ pdf = None /\ export_tried = FALSE

InitResolve ==
    /\ IdleRun("resolve")
    /\ IdleFit
    /\ files \in {fs \in SUBSET FilePool : Cardinality(fs) <= MaxFiles}
    /\ requested \in RequestPool
    /\ walk \in Walks(files)
    /\ found = {}
    /\ calls = 0

\* the directory listing order is the file system's choice
ListTree ==
    /\ pc = "resolve"
    /\ walk' \in Walks(files) \ {walk}
    /\ UNCHANGED <<mainVars, resolveVars, fitVars>>

CallFindPhotoPath ==
    /\ pc = "resolve"
    /\ calls < MaxCalls
    /\ found' = found \cup {find_photo_path(walk, requested)}
    /\ calls' = calls + 1
    /\ UNCHANGED <<mainVars, files, requested, walk, fitVars>>

NextResolve == ListTree \/ CallFindPhotoPath

SpecResolve == InitResolve /\ [][NextResolve]_vars

(***************************************************************************)
(* The fitter on its own                                                   *)
(***************************************************************************)
SampleDims == {49, 281, 600}
SrcDims == (1..MaxDim) \cup SampleDims
Targets == {PHOTO_SIZE} \cup ((1..MaxDim) \X (1..MaxDim))

InitFit ==
    /\ IdleRun("fit")
    /\ IdleResolve
    /\ walk = <<>>
    /\ src_size \in SrcDims \X SrcDims
    /\ target_size \in Targets
    /\ fitted = None

CallResize ==
    /\ pc = "fit"
    /\ fitted = None
    /\ fitted' = <<resize_and_center_crop(src_size, target_size)>>
    /\ UNCHANGED <<mainVars, resolveVars, walk, src_size, target_size>>

NextFit == CallResize

SpecFit == InitFit /\ [][NextFit]_vars

(***************************************************************************)
(* Properties                                                              *)
(***************************************************************************)
InLoop == pc \in {"row_text", "row_photo", "row_barcode"}
AfterLoop == pc \in {"export", "cleanup", "done"}

KindsOf(i) == {warnings[k].kind : k \in {j \in 1..Len(warnings) : warnings[j].row = i}}
PhotoWarnings == {"photo_not_found", "photo_failed", "no_photos_root"}
BarcodeWarnings == {"national_id_missing", "barcode_failed"}

\* C1: whatever the photo step and the barcode step of each record did, every
\* completed iteration appended exactly one card: inside the loop the list
\* has one card per completed record, after the loop one card per record.
C1_OneCardPerRecord ==
    /\ (InLoop \/ pc = "aborted") => Len(output_cards) = idx
    /\ AfterLoop => Len(output_cards) = Len(df)

C1_Witness ==
    /\ pc = "done"
    /\ Len(df) = 3
    /\ Len(output_cards) = 3
    /\ "photo_not_found" \in KindsOf(0)
    /\ "photo_failed" \in KindsOf(1)
    /\ "barcode_failed" \in KindsOf(1)
    /\ "national_id_missing" \in KindsOf(2)

\* C2: the i-th card of output_cards is the card rendered from the i-th row,
\* and the exported document has one page per card, page i being card i.
C2_OrderPreserved ==
    /\ \A i \in 1..Len(output_cards) :
         heap[output_cards[i]].text = DrawTexts(BlankImage, df[i]).text
    /\ pdf # None =>
         /\ Len(pdf) = Len(output_cards)
         /\ \A i \in 1..Len(pdf) : pdf[i] = heap[output_cards[i]]

C2_Witness ==
    /\ pdf # None
    /\ Len(pdf) = 3
    /\ pdf[1].text # pdf[2].text
    /\ pdf[2].text # pdf[3].text
    /\ pdf[1].text # pdf[3].text

\* C3: no failure of a per-record step leaves the record loop: the run never
\* ends in an uncaught exception raised while a record is processed.
C3_NoPropagation == pc # "aborted"

\* C4: resize_and_center_crop returns an image of exactly the target size and
\* its crop box lies inside the scaled image.
C4_CoverFitExact ==
    fitted # None =>
        LET out == fitted[1]
        IN  /\ ~out.raised
            /\ out.size = target_size
            /\ 0 <= out.box[1]
            /\ 0 <= out.box[2]
            /\ out.box[3] <= out.new_w
            /\ out.box[4] <= out.new_h

\* rank of a file name's extension: .png, .jpg, .jpeg, .bmp, then the rest
ExtRank(fn) ==
    LET ext == Lower(PathSuffix(fn))
    IN  CASE ext = <<".","p","n","g">> -> 1
          [] ext = <<".","j","p","g">> -> 2
          [] ext = <<".","j","p","e","g">> -> 3
          [] ext = <<".","b","m","p">> -> 4
          [] OTHER -> 5

Matching == {f \in files : Lower(PathStem(f.fn)) = Lower(PathStem(requested))}

\* C5: with a non-empty requested name and files of that stem under the
\* root, find_photo_path returns one of them whose extension ranks best;
\* with no such file, or an empty name, it returns None.
C5_BestExtension ==
    \A r \in found :
        IF requested = <<>> \/ Matching = {}
        THEN r = None
        ELSE \E f \in Matching :
                /\ r = f.dir \o <<"/">> \o f.fn
                /\ \A g \in Matching : ExtRank(f.fn) <= ExtRank(g.fn)

C5_Witness ==
    /\ requested = <<"p">>
    /\ [dir |-> ROOT, fn |-> P_JPG] \in files
    /\ [dir |-> ROOT, fn |-> P_PNG] \in files
    /\ found = {<<"r","/","p",".","p","n","g">>}

IsAbsentCell(v) == v.k \in {"absent", "none", "nan"}

\* C6: a field that is absent in the row (no column, None, NaN) reaches the
\* pipeline as the empty string: no text is drawn for it, an absent national
\* identifier takes the skip-barcode path, an absent photo reference is not
\* found.
C6_AbsentIsEmpty ==
    pc \in {"row_photo", "row_barcode"} =>
        LET row == df[idx + 1]
            blocks == {heap[card].text[k].block : k \in 1..Len(heap[card].text)}
        IN  /\ IsAbsentCell(row["national_id"]) => national_id = <<>>
            /\ IsAbsentCell(row["photo"]) => photo_filename = <<>>
            /\ IsAbsentCell(row["name"]) => "name" \notin blocks
            /\ IsAbsentCell(row["job"]) => "job" \notin blocks
            /\ IsAbsentCell(row["num"]) =>
                 \A k \in 1..Len(heap[card].text) :
                    heap[card].text[k].block = "id" =>
                        heap[card].text[k].text = prepare_text(LabelPrefix)

\* C7: a card appended without a photo has a photo warning of its record, a
\* card appended without a barcode has a barcode warning of its record, and a
\* record with both pasted has no warning.
C7_DegradationReported ==
    \A i \in 1..Len(output_cards) :
        LET img == heap[output_cards[i]]
        IN  /\ img.photo = None => KindsOf(i - 1) \cap PhotoWarnings # {}
            /\ img.barcode = None => KindsOf(i - 1) \cap BarcodeWarnings # {}
            /\ (img.photo # None /\ img.barcode # None) => KindsOf(i - 1) = {}

C7_Witness ==
    /\ Len(output_cards) = 2
    /\ heap[output_cards[1]].photo = None
    /\ heap[output_cards[1]].barcode = None
    /\ heap[output_cards[2]].photo # None
    /\ heap[output_cards[2]].barcode # None

\* C8: with zero records nothing is exported and "no cards" is reported
\* without any error; with at least one card the export is attempted, and a
\* failed export is reported and leaves output_cards as the loop built it.
C8_EmptyBatch ==
    /\ Len(df) = 0 => pc # "aborted"
    /\ pc \in {"cleanup", "done"} =>
        /\ Len(df) = 0 =>
            /\ output_cards = <<>>
            /\ ~export_tried
            /\ pdf = None
            /\ "no_cards" \in KindsOf(-1)
            /\ errors = <<>>
        /\ output_cards # <<>> => export_tried /\ "no_cards" \notin KindsOf(-1)
        /\ (\E k \in 1..Len(errors) : errors[k] = "export_failed") =>
            /\ pdf = None
            /\ Len(output_cards) = Len(df)
            /\ \A i \in 1..Len(output_cards) :
                 heap[output_cards[i]].text = DrawTexts(BlankImage, df[i]).text

C8_Witness ==
    /\ pc = "done"
    /\ df = <<>>
    /\ photos_root # None
    /\ ~export_tried
    /\ "no_cards" \in KindsOf(-1)

\* C9: for one set of files and one requested name, find_photo_path returns
\* the same path however the directory walk lists the tree.
C9_WalkOrderIndependent == Cardinality(found) <= 1

CardsFrozen ==
    \A i \in 1..Len(output_cards) :
        /\ Len(output_cards') >= i
        /\ output_cards'[i] = output_cards[i]
        /\ heap'[output_cards[i]] = heap[output_cards[i]]

\* C10: the template keeps its loaded content, the appended cards are
\* distinct objects other than the template, and no step changes a card that
\* is already in output_cards.
C10_CopyBeforeMutate ==
    /\ [](template # 0 => heap[template] = BlankImage)
    /\ [](\A i, j \in 1..Len(output_cards) :
            /\ output_cards[i] # template
            /\ (output_cards[i] = output_cards[j] => i = j))
    /\ [][CardsFrozen]_vars

C10_Witness ==
    /\ pc = "row_barcode"
    /\ Len(output_cards) = 2
    /\ heap[card].text # <<>>
    /\ heap[card].photo # None
    /\ card \notin {output_cards[1], output_cards[2], template}

====
